---- MODULE Spec2Model ----
(***************************************************************************)
(* Model of burybell/bonbon-common, package cache: the result wrapper      *)
(* (Outcome), the Redis client wrappers the lock uses (Get, SetNX, Expire) *)
(* and the distributed lock TimeoutLocker.Lock.                            *)
(*                                                                         *)
(* Time is counted in nanoseconds, the unit of Go's time.Duration.  Every  *)
(* backend command of one Lock call is one step, so that other callers and *)
(* the passing of time interleave between the commands of a call.          *)
(***************************************************************************)
EXTENDS Integers, Sequences, FiniteSets, TLC

\* ------------------------------------------------------------------ bounds
\* Lease durations the lock is constructed with: 1..MaxTimeOut nanoseconds.
MaxTimeOut == 1

\* ------------------------------------------------------- program constants
\* rand.Int63n(60) in Drift
DriftBound == 60

Null == ""
Nil == "redis: nil"
TypeMatchError == "type match error"

\* Go's nil error
NoErr == "<nil>"
\* a communication failure reported by the go-redis command
ErrIO == "i/o timeout"
ErrEOF == "EOF"

\* ---------------------------------------------------- Go interface{} values
GoNil == [t |-> "nil", s |-> "", b |-> FALSE, i |-> 0]
Str(x) == [t |-> "string", s |-> x, b |-> FALSE, i |-> 0]
Bool(x) == [t |-> "bool", s |-> "", b |-> x, i |-> 0]
Int64(x) == [t |-> "int64", s |-> "", b |-> FALSE, i |-> x]
\* a float64 with a whole value
Float64(x) == [t |-> "float64", s |-> "", b |-> FALSE, i |-> x]
\* a map[string]string and a []string, by their JSON text ("nil" for nil)
MapOf(x) == [t |-> "map", s |-> x, b |-> FALSE, i |-> 0]
ArrayOf(x) == [t |-> "array", s |-> x, b |-> FALSE, i |-> 0]

\* --------------------------------------------------------- result wrapper
\* (mutant) the value is kept beside the error
OutcomeKeepValue(value, err) == [Error |-> err, Primordial |-> value]

\* (mutant) every error is wrapped as the same error
OutcomeNilAsOther(value, err) ==
    IF err = NoErr
    THEN [Error |-> NoErr, Primordial |-> value]
    ELSE [Error |-> ErrIO, Primordial |-> GoNil]

\* RedisClient.Outcome
Outcome(value, err) ==
    IF err = NoErr
    THEN [Error |-> NoErr, Primordial |-> value]
    ELSE [Error |-> err, Primordial |-> GoNil]

\* strconv.ParseBool, on the strings the model uses
ParseBool(str) ==
    IF str \in {"1", "t", "T", "TRUE", "true", "True"} THEN <<TRUE, NoErr>>
    ELSE IF str \in {"0", "f", "F", "FALSE", "false", "False"} THEN <<FALSE, NoErr>>
    ELSE <<FALSE, "strconv.ParseBool: invalid syntax">>

GetString(oc) ==
    IF oc.Primordial.t = "string"
    THEN <<oc.Primordial.s, NoErr>>
    ELSE <<Null, TypeMatchError>>

GetBool(oc) ==
    IF oc.Primordial.t = "bool" THEN <<oc.Primordial.b, NoErr>>
    ELSE IF oc.Primordial.t = "string" THEN ParseBool(oc.Primordial.s)
    ELSE <<FALSE, TypeMatchError>>

\* strconv.ParseInt(str, 10, 64), on the strings the model uses
Decimals == ("0" :> 0) @@ ("1" :> 1) @@ ("12" :> 12) @@ ("-3" :> 0 - 3) @@ ("+7" :> 7)

ParseInt(str) ==
    IF str \in DOMAIN Decimals THEN <<Decimals[str], NoErr>>
    ELSE <<0, "strconv.ParseInt: invalid syntax">>

\* strconv.ParseFloat(str, 64), on the strings the model uses
Floats == Decimals @@ ("1.0" :> 1) @@ ("1e1" :> 10)

ParseFloat(str) ==
    IF str \in DOMAIN Floats THEN <<Floats[str], NoErr>>
    ELSE <<0, "strconv.ParseFloat: invalid syntax">>

\* json.Unmarshal of a string into a map[string]string, on the strings the
\* model uses: the JSON text of the map it leaves ("nil" for JSON null)
JSONMaps == ("{}" :> "{}") @@ (" {} " :> "{}") @@ ("{\"a\":\"b\"}" :> "{\"a\":\"b\"}")
            @@ ("null" :> "nil")

UnmarshalMap(str) ==
    IF str \in DOMAIN JSONMaps THEN <<JSONMaps[str], NoErr>>
    ELSE <<"nil", "json: cannot unmarshal into map[string]string">>

\* json.Unmarshal of a string into a []string
JSONArrays == ("[]" :> "[]") @@ (" [] " :> "[]") @@ ("[\"a\"]" :> "[\"a\"]")
              @@ ("null" :> "nil")

UnmarshalArray(str) ==
    IF str \in DOMAIN JSONArrays THEN <<JSONArrays[str], NoErr>>
    ELSE <<"nil", "json: cannot unmarshal into []string">>

\* (mutant) a string is not parsed
GetInt64NoParse(oc) ==
    IF oc.Primordial.t = "int64" THEN <<oc.Primordial.i, NoErr>>
    ELSE <<0, TypeMatchError>>

GetInt64(oc) ==
    IF oc.Primordial.t = "int64" THEN <<oc.Primordial.i, NoErr>>
    ELSE IF oc.Primordial.t = "string" THEN ParseInt(oc.Primordial.s)
    ELSE <<0, TypeMatchError>>

GetFloat64(oc) ==
    IF oc.Primordial.t = "float64" THEN <<oc.Primordial.i, NoErr>>
    ELSE IF oc.Primordial.t = "string" THEN ParseFloat(oc.Primordial.s)
    ELSE <<0, TypeMatchError>>

GetMap(oc) ==
    IF oc.Primordial.t = "map" THEN <<oc.Primordial.s, NoErr>>
    ELSE IF oc.Primordial.t = "string" THEN UnmarshalMap(oc.Primordial.s)
    ELSE <<"nil", TypeMatchError>>

GetArray(oc) ==
    IF oc.Primordial.t = "array" THEN <<oc.Primordial.s, NoErr>>
    ELSE IF oc.Primordial.t = "string" THEN UnmarshalArray(oc.Primordial.s)
    ELSE <<"nil", TypeMatchError>>

\* ------------------------------------------------------------ key naming
AppName == "app"
NameSpace == "lock"

GetKey(raw) == AppName \o "-" \o NameSpace \o "-" \o raw

Names == {"job1"}
Tokens == {"workerA", "workerB"}
Callers == {"c1", "c2"}
Keys == {GetKey(n) : n \in Names}

\* ------------------------------------------------------------ the backend
\* An entry of the Redis server: absent, or a string with a remaining time
\* to live.  An absent entry remembers in was the value whose lease ran out
\* there ("" when there was none); no command reads it.
Gone(v) == [present |-> FALSE, val |-> "", ttl |-> 0, was |-> v]
Absent == Gone("")
Entry(v, d) == [present |-> TRUE, val |-> v, ttl |-> d, was |-> ""]

\* How a command fares on the network: "ok", "dropped" (the request never
\* reached the server) or "lost" (the server ran it, the reply was lost).
Faults == {"ok", "dropped", "lost"}

\* (mutant) a drift of 1..60 instead of 0..59
DriftFromOne(duration, drift) == duration + drift + 1

\* Drift: drift is the value of rand.Int63n(60)
Drift(duration, drift) == duration + drift

\* GetValue leaves a value of a scalar kind as it is (the default case);
\* the lock only stores strings.
GetValue(raw) == raw

\* The go-redis command behind each wrapper, run against the server state
\* st: the reply value, the error, the server state afterwards, and whether
\* the server wrote the entry.
GetCmd(st, hook, fault) ==
    IF fault # "ok" THEN [val |-> Str(""), err |-> ErrIO, st |-> st, did |-> FALSE]
    ELSE IF st[hook].present
         THEN [val |-> Str(st[hook].val), err |-> NoErr, st |-> st, did |-> FALSE]
         ELSE [val |-> Str(""), err |-> Nil, st |-> st, did |-> FALSE]

SetNXCmd(st, hook, value, expiration, fault) ==
    LET didSet == fault # "dropped" /\ ~st[hook].present
        after == IF didSet
                 THEN [st EXCEPT ![hook] = Entry(value.s, expiration)]
                 ELSE st
    IN IF fault = "ok"
       THEN [val |-> Bool(didSet), err |-> NoErr, st |-> after, did |-> didSet]
       ELSE [val |-> Bool(FALSE), err |-> ErrIO, st |-> after, did |-> didSet]

ExpireCmd(st, hook, duration, fault) ==
    LET did == fault # "dropped" /\ st[hook].present
        after == IF did
                 THEN [st EXCEPT ![hook].ttl = duration]
                 ELSE st
    IN IF fault = "ok"
       THEN [val |-> Bool(did), err |-> NoErr, st |-> after, did |-> did]
       ELSE [val |-> Bool(FALSE), err |-> ErrIO, st |-> after, did |-> did]

\* The wrappers of RedisClient: the Outcome and the server state afterwards.
RedisGet(st, key, fault) ==
    LET hook == GetKey(key)
        cmd == GetCmd(st, hook, fault)
    IN [out |-> Outcome(cmd.val, cmd.err), st |-> cmd.st, did |-> cmd.did]

\* (mutant) the key is stored in place of the value
RedisSetNXStoresKey(st, key, value, expiration, fault, drift) ==
    LET hook == GetKey(key)
        cmd == SetNXCmd(st, hook, GetValue(Str(key)), Drift(expiration, drift), fault)
    IN [out |-> Outcome(cmd.val, cmd.err), st |-> cmd.st, did |-> cmd.did]

RedisSetNX(st, key, value, expiration, fault, drift) ==
    LET hook == GetKey(key)
        cmd == SetNXCmd(st, hook, GetValue(value), Drift(expiration, drift), fault)
    IN [out |-> Outcome(cmd.val, cmd.err), st |-> cmd.st, did |-> cmd.did]

\* (mutant) the refresh drifts as the set does
RedisExpireDrifts(st, key, duration, fault) ==
    LET hook == GetKey(key)
        cmd == ExpireCmd(st, hook, Drift(duration, DriftBound - 1), fault)
    IN [out |-> Outcome(cmd.val, cmd.err), st |-> cmd.st, did |-> cmd.did]

RedisExpire(st, key, duration, fault) ==
    LET hook == GetKey(key)
        cmd == ExpireCmd(st, hook, duration, fault)
    IN [out |-> Outcome(cmd.val, cmd.err), st |-> cmd.st, did |-> cmd.did]

\* ------------------------------------------------------------------ state
\* Set: the wrapper of the unconditional set.
SetCmd(st, hook, value, expiration) ==
    [val |-> Str("OK"), err |-> NoErr,
     st |-> [st EXCEPT ![hook] = Entry(value.s, expiration)], did |-> TRUE]

RedisSet(st, key, value, expiration, drift) ==
    LET hook == GetKey(key)
        cmd == SetCmd(st, hook, GetValue(value), Drift(expiration, drift))
    IN [out |-> Outcome(cmd.val, cmd.err), st |-> cmd.st, did |-> cmd.did]

\* The keys of a variadic call (keys ...string), as the one Go value they are
\* inside the function: a []string.
Strings(keys) == [t |-> "[]string", l |-> keys]
\* A reply that is a list of values ([]interface{}).
ListOf(vals) == [t |-> "[]interface{}", l |-> vals]

\* The %v verb of fmt.Sprintf in GetKey: a string is printed as it is, a
\* []string as its elements between brackets, separated by spaces.
RECURSIVE Join(_)
Join(l) ==
    IF l = <<>> THEN ""
    ELSE IF Len(l) = 1 THEN l[1]
    ELSE l[1] \o " " \o Join(Tail(l))

FormatV(raw) == IF raw.t = "string" THEN raw.s ELSE "[" \o Join(raw.l) \o "]"

\* GetKeys(raw ...interface{}): one backend key for each argument.
GetKeys(raw) == [i \in DOMAIN raw |-> GetKey(FormatV(raw[i]))]

\* The go-redis commands on several keys, run against the server state st.
DelCmd(st, hooks) ==
    LET hit == {hooks[i] : i \in {j \in DOMAIN hooks : st[hooks[j]].present}}
    IN [val |-> Int64(Cardinality(hit)), err |-> NoErr,
        st |-> [h \in DOMAIN st |-> IF h \in hit THEN Absent ELSE st[h]]]

ExistsCmd(st, hooks) ==
    [val |-> Int64(Cardinality({i \in DOMAIN hooks : st[hooks[i]].present})),
     err |-> NoErr, st |-> st]

MGetCmd(st, hooks) ==
    [val |-> ListOf([i \in DOMAIN hooks |->
                       IF st[hooks[i]].present THEN Str(st[hooks[i]].val) ELSE GoNil]),
     err |-> NoErr, st |-> st]

\* Del, Exists, MGet: the wrappers hand their keys to GetKeys as one argument,
\* the []string itself (GetKeys(keys), not one argument for each key).
RedisDel(st, keys) ==
    LET hooks == GetKeys(<<Strings(keys)>>)
        cmd == DelCmd(st, hooks)
    IN [out |-> Outcome(cmd.val, cmd.err), st |-> cmd.st, hooks |-> hooks]

RedisExists(st, keys) ==
    LET hooks == GetKeys(<<Strings(keys)>>)
        cmd == ExistsCmd(st, hooks)
    IN [out |-> Outcome(cmd.val, cmd.err), st |-> cmd.st, hooks |-> hooks]

RedisMGet(st, keys) ==
    LET hooks == GetKeys(<<Strings(keys)>>)
        cmd == MGetCmd(st, hooks)
    IN [out |-> Outcome(cmd.val, cmd.err), st |-> cmd.st, hooks |-> hooks]

VARIABLES
    store,      \* the server: backend key -> entry
    tl,         \* the TimeoutLocker: [TimeOut, ReUse]
    call,       \* caller -> the Lock call it is in, and where
    last,       \* the Lock call that has just returned, until its caller takes the result
    granted,    \* backend key -> tokens granted since the entry was created
    oc,         \* the result wrapper under test: input and Outcome
    results,    \* caller of a race -> what its one Lock call returned
    ks          \* the cache under the key wrappers: entries and the last operation

vars == <<store, tl, call, last, granted, oc, results, ks>>

Idle == [pc |-> "idle", name |-> "", topic |-> "", log |-> <<>>]
NoCall == [name |-> "", topic |-> "", log |-> <<>>, result |-> FALSE]
\* No accessor has been called on the Outcome under test.
NoAccess == [acc |-> "", val |-> GoNil, err |-> NoErr]
NoOutcome == [value |-> GoNil, err |-> NoErr, out |-> Outcome(GoNil, NoErr), done |-> FALSE,
              got |-> NoAccess]

\* No race of callers is being observed.
NoRace == [p \in {} |-> "none"]
\* No operation has been issued on the cache under the key wrappers.
NoOp == [name |-> "", keys |-> <<>>, hooks |-> <<>>, out |-> Outcome(GoNil, NoErr)]
NoKeys == [st |-> [h \in {} |-> Absent], op |-> NoOp]

\* The holder of an entry as the server sees it ("" when absent).
Holder(st, key) == IF st[GetKey(key)].present THEN st[GetKey(key)].val ELSE ""
HasKey(st, key) == st[GetKey(key)].present

\* One backend command of a call: the command, how it fared, its Outcome,
\* whether the entry existed and what it stored when the server ran it (and
\* whose lease had run out there), and the time to live the command gave the
\* entry (0 when it wrote nothing).
Op(cmd, fault, r, st, key) ==
    [op |-> cmd, fault |-> fault, out |-> r.out,
     had |-> HasKey(st, key), at |-> Holder(st, key), was |-> st[GetKey(key)].was,
     exp |-> IF r.did THEN r.st[GetKey(key)].ttl ELSE 0]

\* NewTimeOutLock
NewTimeOutLock(timeout, reuse) == [TimeOut |-> timeout, ReUse |-> reuse]

Init ==
    /\ store = [k \in Keys |-> Absent]
    /\ tl \in {NewTimeOutLock(d, r) : d \in 1..MaxTimeOut, r \in BOOLEAN}
    /\ call = [p \in Callers |-> Idle]
    /\ last = NoCall
    /\ granted = [k \in Keys |-> {}]
    /\ oc = NoOutcome
    /\ results = NoRace
    /\ ks = NoKeys

\* Lock returns result to caller p; a caller of a race has its result kept.
Return(p, n, t, log, result, st) ==
    /\ store' = st
    /\ call' = [call EXCEPT ![p] = Idle]
    /\ last' = [name |-> n, topic |-> t, log |-> log, result |-> result]
    /\ granted' = IF result
                  THEN [granted EXCEPT ![GetKey(n)] = @ \cup {t}]
                  ELSE granted
    /\ results' = IF p \in DOMAIN results
                  THEN [results EXCEPT ![p] = IF result THEN "true" ELSE "false"]
                  ELSE results
    /\ UNCHANGED <<tl, oc, ks>>

\* Lock goes on to its next backend command.
Goto(p, n, t, log, pc, st) ==
    /\ store' = st
    /\ call' = [call EXCEPT ![p] = [pc |-> pc, name |-> n, topic |-> t, log |-> log]]
    /\ last' = NoCall
    /\ UNCHANGED <<tl, granted, oc, results, ks>>

\* (mutant) the lease is refreshed whether or not ReUse is set
BranchAlwaysReUse(value, topic, reuse) ==
    LET str == GetString(value)
    IN IF value.Error # NoErr
       THEN IF value.Error = Nil THEN "setnx" ELSE "false"
       ELSE IF str[2] = NoErr /\ str[1] # topic
            THEN "false"
            ELSE "expire"

\* (mutant) a key that does not exist is an error like any other
BranchNilIsError(value, topic, reuse) ==
    LET str == GetString(value)
    IN IF value.Error # NoErr
       THEN "false"
       ELSE IF str[2] = NoErr /\ str[1] # topic
            THEN "false"
            ELSE IF ~reuse THEN "false" ELSE "expire"

\* (mutant) every error of the read is taken for a key that does not exist
BranchAnyErrorIsNil(value, topic, reuse) ==
    LET str == GetString(value)
    IN IF value.Error # NoErr
       THEN "setnx"
       ELSE IF str[2] = NoErr /\ str[1] # topic
            THEN "false"
            ELSE IF ~reuse THEN "false" ELSE "expire"

\* (mutant) the stored value is not compared with the topic
BranchNoCompare(value, topic, reuse) ==
    IF value.Error # NoErr
    THEN IF value.Error = Nil THEN "setnx" ELSE "false"
    ELSE IF ~reuse THEN "false" ELSE "expire"

\* Lock, lines 23-40: what Lock does on the Outcome of its initial read:
\* return false, or go on to the set-if-absent or to the refresh.
Branch(value, topic, reuse) ==
    LET str == GetString(value)
    IN IF value.Error # NoErr
       THEN IF value.Error = Nil THEN "setnx" ELSE "false"
       ELSE IF str[2] = NoErr /\ str[1] # topic
            THEN "false"
            ELSE IF ~reuse THEN "false" ELSE "expire"

\* Lock, lines 21-40: the initial read and the branch on it.
LockGet(p, n, t, fault) ==
    /\ last = NoCall
    /\ call[p].pc = "idle"
    /\ LET r == RedisGet(store, n, fault)
           value == r.out
           log == <<Op("get", fault, r, store, n)>>
           to == Branch(value, t, tl.ReUse)
       IN IF to = "false"
          THEN Return(p, n, t, log, FALSE, r.st)
          ELSE Goto(p, n, t, log, to, r.st)

\* (mutant) an error of the set-if-absent counts as success
LockSetNXErrorGrants(p, fault, drift) ==
    /\ last = NoCall
    /\ call[p].pc = "setnx"
    /\ LET n == call[p].name
           t == call[p].topic
           r == RedisSetNX(store, n, Str(t), tl.TimeOut, fault, drift)
           nx == r.out
           log == Append(call[p].log, Op("setnx", fault, r, store, n))
           bol == GetBool(nx)
       IN IF bol[1] \/ bol[2] # NoErr
          THEN Return(p, n, t, log, TRUE, r.st)
          ELSE Return(p, n, t, log, FALSE, r.st)

\* (mutant) the reply of the set-if-absent is not looked at, only its error
LockSetNXIgnoreBool(p, fault, drift) ==
    /\ last = NoCall
    /\ call[p].pc = "setnx"
    /\ LET n == call[p].name
           t == call[p].topic
           r == RedisSetNX(store, n, Str(t), tl.TimeOut, fault, drift)
           nx == r.out
           log == Append(call[p].log, Op("setnx", fault, r, store, n))
           bol == GetBool(nx)
       IN IF nx.Error = NoErr
          THEN Return(p, n, t, log, TRUE, r.st)
          ELSE Return(p, n, t, log, FALSE, r.st)

\* Lock, lines 25-30 and 51-56: the set-if-absent and the return on it.
LockSetNX(p, fault, drift) ==
    /\ last = NoCall
    /\ call[p].pc = "setnx"
    /\ LET n == call[p].name
           t == call[p].topic
           r == RedisSetNX(store, n, Str(t), tl.TimeOut, fault, drift)
           nx == r.out
           log == Append(call[p].log, Op("setnx", fault, r, store, n))
           bol == GetBool(nx)
       IN IF bol[1] /\ bol[2] = NoErr
          THEN Return(p, n, t, log, TRUE, r.st)
          ELSE Return(p, n, t, log, FALSE, r.st)

\* (mutant) a refresh that reports success is trusted: no confirmation read
LockExpireTrusts(p, fault) ==
    /\ last = NoCall
    /\ call[p].pc = "expire"
    /\ LET n == call[p].name
           t == call[p].topic
           r == RedisExpire(store, n, tl.TimeOut, fault)
           expire == r.out
           log == Append(call[p].log, Op("expire", fault, r, store, n))
           bol == GetBool(expire)
       IN IF bol[1] /\ bol[2] = NoErr
          THEN Return(p, n, t, log, TRUE, r.st)
          ELSE Goto(p, n, t, log, "setnx", r.st)

\* (mutant) a refresh that fails is final: no set-if-absent after it
LockExpireNoFallback(p, fault) ==
    /\ last = NoCall
    /\ call[p].pc = "expire"
    /\ LET n == call[p].name
           t == call[p].topic
           r == RedisExpire(store, n, tl.TimeOut, fault)
           expire == r.out
           log == Append(call[p].log, Op("expire", fault, r, store, n))
           bol == GetBool(expire)
       IN IF bol[1] /\ bol[2] = NoErr
          THEN Goto(p, n, t, log, "after", r.st)
          ELSE Return(p, n, t, log, FALSE, r.st)

\* Lock, lines 41-42: the refresh of the lease and the branch on it.
LockExpire(p, fault) ==
    /\ last = NoCall
    /\ call[p].pc = "expire"
    /\ LET n == call[p].name
           t == call[p].topic
           r == RedisExpire(store, n, tl.TimeOut, fault)
           expire == r.out
           log == Append(call[p].log, Op("expire", fault, r, store, n))
           bol == GetBool(expire)
       IN IF bol[1] /\ bol[2] = NoErr
          THEN Goto(p, n, t, log, "after", r.st)
          ELSE Goto(p, n, t, log, "setnx", r.st)

\* (mutant) the confirmation read is not compared with the topic
LockAfterNoCompare(p, fault) ==
    /\ last = NoCall
    /\ call[p].pc = "after"
    /\ LET n == call[p].name
           t == call[p].topic
           r == RedisGet(store, n, fault)
           after == r.out
           log == Append(call[p].log, Op("get", fault, r, store, n))
       IN IF after.Error = NoErr
          THEN Return(p, n, t, log, TRUE, r.st)
          ELSE Return(p, n, t, log, FALSE, r.st)

\* (mutant) a confirmation read that does not match starts the refresh again
LockAfterRetries(p, fault) ==
    /\ last = NoCall
    /\ call[p].pc = "after"
    /\ LET n == call[p].name
           t == call[p].topic
           r == RedisGet(store, n, fault)
           after == r.out
           log == Append(call[p].log, Op("get", fault, r, store, n))
           str == GetString(after)
       IN IF after.Error = NoErr /\ str[2] = NoErr /\ str[1] = t
          THEN Return(p, n, t, log, TRUE, r.st)
          ELSE Goto(p, n, t, log, "expire", r.st)

\* Lock, lines 43-49: the confirmation read and the return on it.
LockAfter(p, fault) ==
    /\ last = NoCall
    /\ call[p].pc = "after"
    /\ LET n == call[p].name
           t == call[p].topic
           r == RedisGet(store, n, fault)
           after == r.out
           log == Append(call[p].log, Op("get", fault, r, store, n))
           str == GetString(after)
       IN IF after.Error = NoErr /\ str[2] = NoErr /\ str[1] = t
          THEN Return(p, n, t, log, TRUE, r.st)
          ELSE Return(p, n, t, log, FALSE, r.st)

\* One nanosecond passes on the server; an entry whose time to live runs
\* out is removed.
Tick ==
    /\ last = NoCall
    /\ \E k \in Keys : store[k].present
    /\ store' = [k \in Keys |->
                   IF ~store[k].present THEN store[k]
                   ELSE IF store[k].ttl > 1
                        THEN [store[k] EXCEPT !.ttl = @ - 1]
                        ELSE Gone(store[k].val)]
    /\ granted' = [k \in Keys |->
                   IF store[k].present /\ store[k].ttl > 1
                   THEN granted[k]
                   ELSE {}]
    /\ last' = NoCall
    /\ UNCHANGED <<tl, call, oc, results, ks>>

\* The caller takes the result of the call that has just returned.
TakeResult ==
    /\ last # NoCall
    /\ last' = NoCall
    /\ UNCHANGED <<store, tl, call, granted, oc, results, ks>>

\* The drifts worth telling apart: the drift only matters to a set-if-absent
\* that sets the entry.
Drifts(p, fault) ==
    IF call[p].pc = "setnx" /\ fault # "dropped" /\ ~HasKey(store, call[p].name)
    THEN 0..(DriftBound - 1)
    ELSE {0}

Next ==
    \/ \E p \in Callers, n \in Names, t \in Tokens, fault \in {"ok", "dropped"} :
          LockGet(p, n, t, fault)
    \/ \E p \in Callers, fault \in Faults :
          \E drift \in Drifts(p, fault) : LockSetNX(p, fault, drift)
    \/ \E p \in Callers, fault \in Faults : LockExpire(p, fault)
    \/ \E p \in Callers, fault \in {"ok", "dropped"} : LockAfter(p, fault)
    \/ Tick
    \/ TakeResult

Spec == Init /\ [][Next]_vars

TypeOK ==
    /\ \A k \in Keys : store[k].ttl \in 0..(MaxTimeOut + DriftBound - 1)
    /\ \A p \in Callers : call[p].pc \in {"idle", "setnx", "expire", "after"}


\* ------------------------------------------------- the result wrapper alone
\* The results (value, err) a go-redis command can hand to Outcome.
MaxInt == 6
OutcomeValues ==
    {GoNil, Bool(TRUE), Bool(FALSE)}
    \cup {Str(x) : x \in {"", "workerA", "workerB", "true", "false", "1", "0", "OK", "12", "x",
                          "-3", "1.0", "{}", "[]", "null", "{\"a\":\"b\"}", "[\"a\"]"}}
    \cup {Int64(x) : x \in (0 - MaxInt)..MaxInt}
    \cup {Float64(1), MapOf("{}"), MapOf("nil"), ArrayOf("[\"a\"]"), ArrayOf("nil")}
OutcomeErrors == {NoErr, Nil, ErrIO, ErrEOF}

InitOutcome ==
    /\ store = [k \in Keys |-> Absent]
    /\ tl = NewTimeOutLock(1, FALSE)
    /\ call = [p \in Callers |-> Idle]
    /\ last = NoCall
    /\ granted = [k \in Keys |-> {}]
    /\ oc = NoOutcome
    /\ results = NoRace
    /\ ks = NoKeys

\* rc.Outcome(value, err)
WrapOutcome(value, err) ==
    /\ ~oc.done
    /\ oc' = [value |-> value, err |-> err, out |-> Outcome(value, err), done |-> TRUE,
              got |-> NoAccess]
    /\ UNCHANGED <<store, tl, call, last, granted, results, ks>>

\* The typed accessors of Outcome, and what accessor acc returns on out: the
\* value, as a Go value, and the error.
Accessors == {"GetInt64", "GetString", "GetFloat64", "GetBool", "GetMap", "GetArray"}

Access(acc, out) ==
    LET r == CASE acc = "GetInt64" -> <<Int64(GetInt64(out)[1]), GetInt64(out)[2]>>
               [] acc = "GetString" -> <<Str(GetString(out)[1]), GetString(out)[2]>>
               [] acc = "GetFloat64" -> <<Float64(GetFloat64(out)[1]), GetFloat64(out)[2]>>
               [] acc = "GetBool" -> <<Bool(GetBool(out)[1]), GetBool(out)[2]>>
               [] acc = "GetMap" -> <<MapOf(GetMap(out)[1]), GetMap(out)[2]>>
               [] acc = "GetArray" -> <<ArrayOf(GetArray(out)[1]), GetArray(out)[2]>>
    IN [acc |-> acc, val |-> r[1], err |-> r[2]]

\* A caller reads the Outcome through one typed accessor.
CallAccessor(acc) ==
    /\ oc.done
    /\ oc.got = NoAccess
    /\ oc' = [oc EXCEPT !.got = Access(acc, oc.out)]
    /\ UNCHANGED <<store, tl, call, last, granted, results, ks>>

NextOutcome ==
    \/ \E value \in OutcomeValues, err \in OutcomeErrors : WrapOutcome(value, err)
    \/ \E acc \in Accessors : CallAccessor(acc)

SpecOutcome == InitOutcome /\ [][NextOutcome]_vars

\* A race for one lock: every caller calls Lock once, each with a token of
\* its own, on a name that has no entry; no command fails and no time passes
\* while the calls run. No caller reads its own token there, so that the
\* refresh and the confirmation read of Lock are never reached.
TokenOf == [p \in Callers |-> IF p = "c1" THEN "workerA" ELSE "workerB"]

InitRace ==
    /\ store = [k \in Keys |-> Absent]
    /\ tl \in {NewTimeOutLock(d, r) : d \in 1..MaxTimeOut, r \in BOOLEAN}
    /\ call = [p \in Callers |-> Idle]
    /\ last = NoCall
    /\ granted = [k \in Keys |-> {}]
    /\ oc = NoOutcome
    /\ results = [p \in Callers |-> "none"]
    /\ ks = NoKeys

NextRace ==
    \/ \E p \in Callers, n \in Names :
          results[p] = "none" /\ LockGet(p, n, TokenOf[p], "ok")
    \/ \E p \in Callers : \E drift \in Drifts(p, "ok") : LockSetNX(p, "ok", drift)
    \/ TakeResult

SpecRace == InitRace /\ [][NextRace]_vars

\* The cache under the key wrappers: callers issue single-key and multi-key
\* operations with raw keys; the server holds an entry or none under every
\* backend key an operation can name.
MaxKeys == 2
RawKeys == {"k1", "k2"}
KeyLists == UNION {[1..n -> RawKeys] : n \in 1..MaxKeys}
KeyHooks == {GetKey(k) : k \in RawKeys}
            \cup {GetKeys(<<Strings(l)>>)[1] : l \in KeyLists}

InitKeys ==
    /\ store = [k \in Keys |-> Absent]
    /\ tl = NewTimeOutLock(1, FALSE)
    /\ call = [p \in Callers |-> Idle]
    /\ last = NoCall
    /\ granted = [k \in Keys |-> {}]
    /\ oc = NoOutcome
    /\ results = NoRace
    /\ ks = [st |-> [h \in KeyHooks |-> Absent], op |-> NoOp]

\* One operation of the cache: its name, its raw keys, its Outcome, the
\* server state after it and, for a multi-key operation, the backend keys
\* it named.
Done(name, keys, r, hooks) ==
    /\ ks' = [st |-> r.st,
              op |-> [name |-> name, keys |-> keys, hooks |-> hooks, out |-> r.out]]
    /\ UNCHANGED <<store, tl, call, last, granted, oc, results>>

KeysGet(k) == Done("Get", <<k>>, RedisGet(ks.st, k, "ok"), <<>>)
KeysSetNX(k, d, drift) ==
    Done("SetNX", <<k>>, RedisSetNX(ks.st, k, Str("v"), d, "ok", drift), <<>>)
KeysSet(k, d, drift) ==
    Done("Set", <<k>>, RedisSet(ks.st, k, Str("v"), d, drift), <<>>)
KeysExpire(k, d) == Done("Expire", <<k>>, RedisExpire(ks.st, k, d, "ok"), <<>>)
KeysDel(keys) == Done("Del", keys, RedisDel(ks.st, keys), RedisDel(ks.st, keys).hooks)
KeysExists(keys) ==
    Done("Exists", keys, RedisExists(ks.st, keys), RedisExists(ks.st, keys).hooks)
KeysMGet(keys) == Done("MGet", keys, RedisMGet(ks.st, keys), RedisMGet(ks.st, keys).hooks)

NextKeys ==
    \/ \E k \in RawKeys : KeysGet(k)
    \/ \E k \in RawKeys, d \in 1..MaxTimeOut, drift \in {0, DriftBound - 1} :
          KeysSetNX(k, d, drift)
    \/ \E k \in RawKeys, d \in 1..MaxTimeOut, drift \in {0, DriftBound - 1} :
          KeysSet(k, d, drift)
    \/ \E k \in RawKeys, d \in 1..MaxTimeOut : KeysExpire(k, d)
    \/ \E keys \in KeyLists : KeysDel(keys)
    \/ \E keys \in KeyLists : KeysExists(keys)
    \/ \E keys \in KeyLists : KeysMGet(keys)

SpecKeys == InitKeys /\ [][NextKeys]_vars

\* ------------------------------------------------------------- properties
\* A backend command of a call reported a communication error.
Failed(op) == op.out.Error \notin {NoErr, Nil}
\* A backend command of a call reported success: true, and no error.
Succeeded(op) == op.out = Outcome(Bool(TRUE), NoErr)
NoFailure(log) == \A i \in DOMAIN log : ~Failed(log[i])
Ops(log) == [i \in DOMAIN log |-> log[i].op]
LastKey == GetKey(last.name)

\* C1 (mutual exclusion): within one unexpired lease of an entry, Lock has
\* returned true for at most one holder token, and that token is the one the
\* entry stores; a second token is granted only after the entry has expired.
MutualExclusion ==
    \A k \in Keys :
        /\ Cardinality(granted[k]) <= 1
        /\ granted[k] # {} => store[k].present /\ granted[k] = {store[k].val}

\* workerB saw the key absent, then lost the race of the set-if-absent to
\* workerA, who holds the grant.
MutualExclusionWitness ==
    /\ last # NoCall
    /\ last.topic = "workerB" /\ ~last.result
    /\ Ops(last.log) = <<"get", "setnx">>
    /\ last.log[2].at = "workerA"
    /\ granted[LastKey] = {"workerA"}

\* C2 (idempotent reacquisition): with ReUse set, a Lock(name, A) call that
\* finds the entry storing A at each of its backend commands, none of which
\* fails, returns true after get, expire, get, and its expire gives the entry
\* a time to live of exactly TimeOut.
IdempotentReacquisition ==
    (/\ last # NoCall
     /\ tl.ReUse
     /\ NoFailure(last.log)
     /\ \A i \in DOMAIN last.log : last.log[i].at = last.topic)
    => /\ last.result
       /\ Ops(last.log) = <<"get", "expire", "get">>
       /\ last.log[2].exp = tl.TimeOut
       /\ store[LastKey].present /\ store[LastKey].val = last.topic

\* workerA, already granted the lock, is granted it again by a refresh.
IdempotentReacquisitionWitness ==
    /\ last # NoCall
    /\ tl.ReUse
    /\ last.topic = "workerA" /\ last.result
    /\ Ops(last.log) = <<"get", "expire", "get">>
    /\ \A i \in DOMAIN last.log : last.log[i].at = "workerA" /\ ~Failed(last.log[i])
    /\ last.log[2].exp = tl.TimeOut

\* C3 (no reuse without flag): with ReUse unset, a Lock(name, A) call whose
\* initial read happens while the entry stores A returns false on that read,
\* with no further backend command, and leaves the server as it was.
NoReuseWithoutFlag ==
    [][(/\ last' # NoCall
        /\ ~tl.ReUse
        /\ last'.log[1].at = last'.topic)
       => /\ ~last'.result
          /\ Ops(last'.log) = <<"get">>
          /\ store' = store]_vars

\* workerA holds the grant, reads its own token back and is refused.
NoReuseWithoutFlagWitness ==
    /\ last # NoCall
    /\ ~tl.ReUse
    /\ last.topic = "workerA" /\ ~last.result
    /\ last.log[1].at = "workerA" /\ ~Failed(last.log[1])
    /\ granted[LastKey] = {"workerA"}

\* C4 (expiry-based release): a Lock(name, B) call whose initial read
\* reports the key absent, with no backend error and the key still absent at
\* its set-if-absent (no competing caller), returns true, and on return the
\* entry stores B.
ExpiryRelease ==
    (/\ last # NoCall
     /\ last.log[1].out.Error = Nil
     /\ NoFailure(last.log)
     /\ \A i \in DOMAIN last.log : ~last.log[i].had)
    => /\ last.result
       /\ store[LastKey].present /\ store[LastKey].val = last.topic

\* workerA's lease ran out; workerB then acquires the lock.
ExpiryReleaseWitness ==
    /\ last # NoCall
    /\ last.topic = "workerB" /\ last.result
    /\ last.log[1].out.Error = Nil /\ last.log[1].was = "workerA"
    /\ Ops(last.log) = <<"get", "setnx">>
    /\ store[LastKey].val = "workerB"

\* C5 (fail-closed on read error): a Lock call whose initial read fails with
\* an error other than Nil returns false on that read, whatever the token and
\* ReUse, with no further backend command, and leaves the server as it was.
ReadErrorFailsClosed ==
    [][(/\ last' # NoCall
        /\ Failed(last'.log[1]))
       => /\ ~last'.result
          /\ Ops(last'.log) = <<"get">>
          /\ store' = store]_vars

\* The read fails for the very holder of the entry, with ReUse set.
ReadErrorFailsClosedWitness ==
    /\ last # NoCall
    /\ tl.ReUse
    /\ Failed(last.log[1]) /\ ~last.result
    /\ last.log[1].at = last.topic
    /\ granted[LastKey] = {last.topic}

\* C6 as claimed (fail-closed on every backend call): a Lock call one of
\* whose backend commands reported a communication error returns false.
FailClosedOnEveryCall ==
    (last # NoCall /\ \E i \in DOMAIN last.log : Failed(last.log[i]))
    => ~last.result

\* C6 as amended: a Lock call whose initial read, confirmation read or
\* set-if-absent reported a communication error returns false; a call whose
\* expire reported one goes on to the set-if-absent and returns true exactly
\* when that reports true with no error.
FailClosedButRefresh ==
    last # NoCall =>
        /\ (\E i \in DOMAIN last.log : last.log[i].op # "expire" /\ Failed(last.log[i]))
              => ~last.result
        /\ (\E i \in DOMAIN last.log : last.log[i].op = "expire" /\ Failed(last.log[i]))
              => /\ Ops(last.log) = <<"get", "expire", "setnx">>
                 /\ last.result <=> Succeeded(last.log[3])

\* The expire of workerA's call fails, the entry has expired meanwhile, and
\* the set-if-absent that follows grants the lock.
FailClosedButRefreshWitness ==
    /\ last # NoCall
    /\ last.result
    /\ Ops(last.log) = <<"get", "expire", "setnx">>
    /\ Failed(last.log[2])
    /\ store[LastKey].val = last.topic

\* C7 (uncontended acquisition): a Lock(name, T) call whose initial read
\* reports Nil issues one set-if-absent and nothing else, returns true exactly
\* when the set-if-absent reports true with no error, and then the entry
\* stores T with the time to live the set-if-absent gave it.
UncontendedAcquisition ==
    (last # NoCall /\ last.log[1].out.Error = Nil)
    => /\ Ops(last.log) = <<"get", "setnx">>
       /\ last.result <=> Succeeded(last.log[2])
       /\ last.result => store[LastKey] = Entry(last.topic, last.log[2].exp)

\* The key is absent, the set-if-absent succeeds, the token is granted.
UncontendedAcquisitionWitness ==
    /\ last # NoCall
    /\ last.log[1].out.Error = Nil
    /\ Ops(last.log) = <<"get", "setnx">>
    /\ Succeeded(last.log[2]) /\ last.result
    /\ store[LastKey].val = last.topic
    /\ granted[LastKey] = {last.topic}

\* C8 (held by other): a Lock call whose initial read succeeds with a value
\* other than its token returns false on that read, whatever ReUse, with no
\* further backend command, and leaves the server as it was.
HeldByOther ==
    [][(/\ last' # NoCall
        /\ last'.log[1].out.Error = NoErr
        /\ GetString(last'.log[1].out) # <<last'.topic, NoErr>>)
       => /\ ~last'.result
          /\ Ops(last'.log) = <<"get">>
          /\ store' = store]_vars

\* With ReUse set, workerB reads workerA's token and is refused.
HeldByOtherWitness ==
    /\ last # NoCall
    /\ tl.ReUse
    /\ last.topic = "workerB" /\ ~last.result
    /\ last.log[1].out = Outcome(Str("workerA"), NoErr)
    /\ Ops(last.log) = <<"get">>
    /\ granted[LastKey] = {"workerA"}

\* C9 as claimed (lease length): every set-if-absent and every refresh of
\* Lock that reports success gives the entry a time to live of exactly
\* TimeOut.
LeaseIsTimeOut ==
    \A i \in DOMAIN last.log :
        (last.log[i].op \in {"setnx", "expire"} /\ Succeeded(last.log[i]))
        => last.log[i].exp = tl.TimeOut

\* C9 as amended: a refresh that reports success gives the entry a time to
\* live of exactly TimeOut; a set-if-absent that reports success gives it
\* TimeOut plus a drift of 0 to DriftBound - 1 nanoseconds.
LeaseIsTimeOutPlusDrift ==
    \A i \in DOMAIN last.log :
        /\ (last.log[i].op = "expire" /\ Succeeded(last.log[i]))
              => last.log[i].exp = tl.TimeOut
        /\ (last.log[i].op = "setnx" /\ Succeeded(last.log[i]))
              => /\ last.log[i].exp >= tl.TimeOut
                 /\ last.log[i].exp < tl.TimeOut + DriftBound

\* A set-if-absent that succeeded with the largest drift.
LeaseIsTimeOutPlusDriftWitness ==
    /\ last # NoCall
    /\ last.result
    /\ Ops(last.log) = <<"get", "setnx">>
    /\ last.log[2].exp = tl.TimeOut + DriftBound - 1
    /\ store[LastKey].ttl = tl.TimeOut + DriftBound - 1

\* C10 (the result wrapper is discriminated): Outcome(value, err) carries no
\* error and the value when err is nil, and the error and no value otherwise;
\* it never carries both an error and a value, and it carries Nil exactly when
\* err is Nil.
OutcomeDiscriminated ==
    oc.done =>
        /\ oc.err = NoErr => oc.out.Error = NoErr /\ oc.out.Primordial = oc.value
        /\ oc.err # NoErr => oc.out.Error = oc.err /\ oc.out.Primordial = GoNil
        /\ ~(oc.out.Error # NoErr /\ oc.out.Primordial # GoNil)
        /\ oc.out.Error = Nil <=> oc.err = Nil

\* A command that returns a value together with the error Nil, as go-redis
\* does for Get on a key that does not exist.
OutcomeDiscriminatedWitness ==
    /\ oc.done
    /\ oc.value = Str("") /\ oc.err = Nil
    /\ oc.out = [Error |-> Nil, Primordial |-> GoNil]

\* The native type of each accessor, the value it returns when it fails, and
\* what its parser makes of a string (GetString has no parser).
Native(acc) ==
    CASE acc = "GetInt64" -> "int64" [] acc = "GetString" -> "string"
      [] acc = "GetFloat64" -> "float64" [] acc = "GetBool" -> "bool"
      [] acc = "GetMap" -> "map" [] acc = "GetArray" -> "array"

Zero(acc) ==
    CASE acc = "GetInt64" -> Int64(0) [] acc = "GetString" -> Str(Null)
      [] acc = "GetFloat64" -> Float64(0) [] acc = "GetBool" -> Bool(FALSE)
      [] acc = "GetMap" -> MapOf("nil") [] acc = "GetArray" -> ArrayOf("nil")

Parsed(acc, str) ==
    CASE acc = "GetInt64" -> <<Int64(ParseInt(str)[1]), ParseInt(str)[2]>>
      [] acc = "GetFloat64" -> <<Float64(ParseFloat(str)[1]), ParseFloat(str)[2]>>
      [] acc = "GetBool" -> <<Bool(ParseBool(str)[1]), ParseBool(str)[2]>>
      [] acc = "GetMap" -> <<MapOf(UnmarshalMap(str)[1]), UnmarshalMap(str)[2]>>
      [] acc = "GetArray" -> <<ArrayOf(UnmarshalArray(str)[1]), UnmarshalArray(str)[2]>>

\* The accessor was given a value of another type that is a string.
ToParse == oc.got.acc # "GetString" /\ oc.out.Primordial.t = "string"
\* The accessor was given a value that is neither of its type nor a string.
WrongType == oc.out.Primordial.t \notin {Native(oc.got.acc), "string"}

\* C11 as claimed (typed accessor coercion): an accessor returns a value of
\* its native type unchanged, otherwise parses a string, and fails with the
\* type match error whenever the value has a wrong type or is a string that
\* does not parse.
AccessorCoercion ==
    oc.got # NoAccess =>
        /\ oc.out.Primordial.t = Native(oc.got.acc)
              => oc.got.val = oc.out.Primordial /\ oc.got.err = NoErr
        /\ (ToParse /\ Parsed(oc.got.acc, oc.out.Primordial.s)[2] = NoErr)
              => oc.got.val = Parsed(oc.got.acc, oc.out.Primordial.s)[1] /\ oc.got.err = NoErr
        /\ (WrongType \/ (ToParse /\ Parsed(oc.got.acc, oc.out.Primordial.s)[2] # NoErr))
              => oc.got.err = TypeMatchError

\* C11 as amended: an accessor returns a value of its native type unchanged,
\* otherwise parses a string; it fails with the type match error when the
\* value is neither of its type nor a string, and with the error of the
\* parser, which is not the type match error, when the string does not parse.
AccessorCoercionParseError ==
    oc.got # NoAccess =>
        /\ oc.out.Primordial.t = Native(oc.got.acc)
              => oc.got.val = oc.out.Primordial /\ oc.got.err = NoErr
        /\ (ToParse /\ Parsed(oc.got.acc, oc.out.Primordial.s)[2] = NoErr)
              => oc.got.val = Parsed(oc.got.acc, oc.out.Primordial.s)[1] /\ oc.got.err = NoErr
        /\ WrongType
              => oc.got.val = Zero(oc.got.acc) /\ oc.got.err = TypeMatchError
        /\ (ToParse /\ Parsed(oc.got.acc, oc.out.Primordial.s)[2] # NoErr)
              => /\ oc.got.val = Zero(oc.got.acc)
                 /\ oc.got.err = Parsed(oc.got.acc, oc.out.Primordial.s)[2]
                 /\ oc.got.err \notin {NoErr, TypeMatchError}

\* GetInt64 on the string "x": the error of strconv.ParseInt comes back.
AccessorCoercionParseErrorWitness ==
    /\ oc.got.acc = "GetInt64"
    /\ oc.out = Outcome(Str("x"), NoErr)
    /\ oc.got.val = Int64(0)
    /\ oc.got.err = "strconv.ParseInt: invalid syntax"

\* The Lock calls the state knows: those in progress and the one that has
\* just returned.
Calls == {[topic |-> call[p].topic, log |-> call[p].log] : p \in Callers}
         \cup {[topic |-> last.topic, log |-> last.log]}

\* C12 (lease refresh only by the owner): whenever the expire of a
\* Lock(name, A) call resets the time to live of the entry, the entry stores A
\* at that instant.
RefreshOnlyByOwner ==
    \A c \in Calls : \A i \in DOMAIN c.log :
        (c.log[i].op = "expire" /\ c.log[i].exp # 0) => c.log[i].at = c.topic

\* C13 (refresh-then-confirm): with ReUse set, a call whose initial read
\* gave its token and whose expire reported success reads the entry again and
\* returns true exactly when that read succeeds with its token; it returns
\* false when the entry stores another token by then.
RefreshThenConfirm ==
    (/\ last # NoCall
     /\ Len(last.log) >= 2
     /\ last.log[2].op = "expire" /\ Succeeded(last.log[2]))
    => /\ tl.ReUse
       /\ last.log[1].out = Outcome(Str(last.topic), NoErr)
       /\ Ops(last.log) = <<"get", "expire", "get">>
       /\ last.result <=> last.log[3].out = Outcome(Str(last.topic), NoErr)
       /\ (last.log[3].had /\ last.log[3].at # last.topic) => ~last.result

\* workerA read its token, the lease ran out, workerB set the entry, workerA's
\* expire succeeded on it, and the confirmation read refuses workerA.
RefreshThenConfirmWitness ==
    /\ last # NoCall
    /\ last.topic = "workerA" /\ ~last.result
    /\ Ops(last.log) = <<"get", "expire", "get">>
    /\ last.log[1].at = "workerA"
    /\ Succeeded(last.log[2])
    /\ last.log[3].out = Outcome(Str("workerB"), NoErr)

\* C14 (refresh fallback): with ReUse set, a call whose initial read gave
\* its token and whose expire did not report success (false, or an error)
\* issues one set-if-absent with TimeOut and no confirmation read, and returns
\* true exactly when the set-if-absent reports true with no error; the entry
\* then stores the token with the time to live the set-if-absent gave it.
RefreshFallback ==
    (/\ last # NoCall
     /\ Len(last.log) >= 2
     /\ last.log[2].op = "expire" /\ ~Succeeded(last.log[2]))
    => /\ tl.ReUse
       /\ last.log[1].out = Outcome(Str(last.topic), NoErr)
       /\ Ops(last.log) = <<"get", "expire", "setnx">>
       /\ last.result <=> Succeeded(last.log[3])
       /\ last.result =>
             /\ store[LastKey] = Entry(last.topic, last.log[3].exp)
             /\ last.log[3].exp \in tl.TimeOut..(tl.TimeOut + DriftBound - 1)

\* The key expired after the initial read: the expire reports false, the
\* set-if-absent sets the entry again and the call returns true.
RefreshFallbackWitness ==
    /\ last # NoCall
    /\ last.result
    /\ Ops(last.log) = <<"get", "expire", "setnx">>
    /\ last.log[2].out = Outcome(Bool(FALSE), NoErr) /\ ~last.log[2].had
    /\ Succeeded(last.log[3])

\* C16 (entry transitions): the value stored at a lock name changes only
\* from absent to the token of a caller, in the step of that caller's
\* set-if-absent, which the server carried out, or from a token to absent,
\* when no caller steps and the time to live of the entry runs out.
EntryTransitions ==
    [][\A n \in Names :
         Holder(store', n) # Holder(store, n) =>
            \/ /\ ~HasKey(store, n) /\ HasKey(store', n)
               /\ \E p \in Callers :
                     /\ call[p].pc = "setnx" /\ call[p].name = n
                     /\ call'[p] = Idle
                     /\ Holder(store', n) = call[p].topic
                     /\ last'.log[Len(last'.log)].op = "setnx"
                     /\ last'.log[Len(last'.log)].exp # 0
            \/ /\ HasKey(store, n) /\ ~HasKey(store', n)
               /\ call' = call
               /\ store[GetKey(n)].ttl = 1]_vars

\* workerB's set-if-absent has just set an entry where workerA's lease had
\* run out.
EntryTransitionsWitness ==
    /\ last # NoCall
    /\ last.topic = "workerB"
    /\ last.log[Len(last.log)].op = "setnx" /\ last.log[Len(last.log)].exp # 0
    /\ last.log[Len(last.log)].was = "workerA"
    /\ store[LastKey].val = "workerB"

\* C17 (grant implies ownership): when Lock(name, T) returns true, its last
\* backend command is a set-if-absent that reported true or a confirmation
\* read that gave T, never the expire, and at that instant the entry exists
\* and stores T.
GrantImpliesOwnership ==
    (last # NoCall /\ last.result)
    => /\ store[LastKey].present /\ store[LastKey].val = last.topic
       /\ \/ /\ Ops(last.log) \in {<<"get", "setnx">>, <<"get", "expire", "setnx">>}
             /\ Succeeded(last.log[Len(last.log)])
          \/ /\ Ops(last.log) = <<"get", "expire", "get">>
             /\ last.log[3].out = Outcome(Str(last.topic), NoErr)
             /\ last.log[3].at = last.topic

\* workerA is granted the lock by the confirmation read after its refresh.
GrantImpliesOwnershipWitness ==
    /\ last # NoCall
    /\ last.result /\ last.topic = "workerA"
    /\ Ops(last.log) = <<"get", "expire", "get">>
    /\ store[LastKey].present /\ store[LastKey].val = "workerA"

\* C18 (single round): a Lock call issues at most three backend commands, at
\* most two reads, one expire and one set-if-absent; a call in progress has
\* issued one or two and each next command is a new one of its sequence, so
\* that the call has returned after the third at the latest.
Count(log, op) == Cardinality({i \in DOMAIN log : log[i].op = op})

SingleRound ==
    /\ \A c \in Calls :
          /\ Len(c.log) <= 3
          /\ Count(c.log, "get") <= 2
          /\ Count(c.log, "expire") <= 1
          /\ Count(c.log, "setnx") <= 1
    /\ \A p \in Callers :
          /\ call[p].pc = "idle" => call[p].log = <<>>
          /\ call[p].pc = "expire" => Ops(call[p].log) = <<"get">>
          /\ call[p].pc = "after" => Ops(call[p].log) = <<"get", "expire">>
          /\ call[p].pc = "setnx" => Ops(call[p].log) \in {<<"get">>, <<"get", "expire">>}
    /\ last # NoCall => Len(last.log) \in 1..3

\* A call that took the longest way: read, refresh, confirmation read.
SingleRoundWitness ==
    /\ last # NoCall
    /\ Len(last.log) = 3
    /\ Count(last.log, "get") = 2 /\ Count(last.log, "expire") = 1

\* C15 (exactly one winner): when callers with pairwise distinct tokens
\* each call Lock once on a name without entry, with no backend error and no
\* lease running out, then never two of them are granted, and once all have
\* returned exactly one was granted, the others were refused, and the entry
\* stores the token of the winner. (No call of the race goes beyond its
\* set-if-absent.)
Winners == {p \in Callers : results[p] = "true"}

ExactlyOneWinner ==
    /\ \A p \in Callers : call[p].pc \in {"idle", "setnx"}
    /\ Cardinality(Winners) <= 1
    /\ (\A p \in Callers : results[p] # "none") =>
          \E w \in Callers :
             /\ Winners = {w}
             /\ \A p \in Callers \ {w} : results[p] = "false"
             /\ \A n \in Names : Holder(store, n) = TokenOf[w]

\* Both callers read no entry; c2's set-if-absent came first, and c1's
\* was refused.
ExactlyOneWinnerWitness ==
    /\ results = [p \in Callers |-> IF p = "c2" THEN "true" ELSE "false"]
    /\ last # NoCall /\ last.topic = TokenOf["c1"] /\ ~last.result
    /\ Ops(last.log) = <<"get", "setnx">>
    /\ last.log[1].out.Error = Nil
    /\ last.log[2].at = TokenOf["c2"]
    /\ store[LastKey].val = TokenOf["c2"]

\* C19 (consistent key namespacing): every cache operation names, for a
\* raw key k, the backend key GetKey(k): the multi-key operations Del, Exists
\* and MGet name GetKey(k) for each of their keys, so that after Del(k) a
\* Get(k) finds no entry, Exists(k) counts the entry that Get(k) reads, and
\* MGet gives for each key what Get gives; a SetNX or Set that wrote is read
\* back by Get under the same raw key.
Reads(k) == RedisGet(ks.st, k, "ok").out

ConsistentKeyNamespacing ==
    LET o == ks.op
    IN /\ o.name \in {"Del", "Exists", "MGet"} =>
             o.hooks = [i \in DOMAIN o.keys |-> GetKey(o.keys[i])]
       /\ o.name = "Del" => \A i \in DOMAIN o.keys : Reads(o.keys[i]).Error = Nil
       /\ o.name = "Exists" =>
             o.out = Outcome(Int64(Cardinality({i \in DOMAIN o.keys :
                                                  Reads(o.keys[i]).Error = NoErr})), NoErr)
       /\ o.name = "MGet" =>
             o.out = Outcome(ListOf([i \in DOMAIN o.keys |->
                                       IF Reads(o.keys[i]).Error = NoErr
                                       THEN Reads(o.keys[i]).Primordial ELSE GoNil]), NoErr)
       /\ (o.name = "Set" \/ (o.name = "SetNX" /\ o.out = Outcome(Bool(TRUE), NoErr))) =>
             Reads(o.keys[1]) = Outcome(Str("v"), NoErr)
       /\ o.name = "Get" => o.out = Reads(o.keys[1])

====
